---- MODULE Spec2Model ----
(***************************************************************************)
(* Model of the Device of package uvc (device.go): the handle life cycle   *)
(* behind a sync.RWMutex, the control setters, the catalog queries, the    *)
(* stream negotiation, and the native library seen through its calls.      *)
(*                                                                         *)
(* A thread runs one method at a time.  A method is a sequence of steps:   *)
(* called ("lock"), lock acquired ("body"), past its nil check ("use"),    *)
(* return values computed with the deferred unlock still pending ("ret"),  *)
(* returned ("idle").                                                      *)
(***************************************************************************)
EXTENDS Integers, Sequences, FiniteSets, TLC

\* ---- bounds of the model
NumThreads == 2      \* goroutines sharing the one Device
NumAddrs == 2        \* addresses the native allocator hands out for handles
MaxOpens == 2        \* successful native opens in one run
NumIfs == 2          \* nodes of the handle's native stream interface list
MaxRef == 2          \* cap of the native device reference count
MaxCalls == 5        \* method calls started in one run

Threads == 1..NumThreads
Addrs == 1..NumAddrs
Nil == 0

\* ---- error values
ErrDeviceClosed == "device closed"
ErrDeviceNotFound == "device not found"
NoError == "nil"

\* Native status codes the library can report for a live device.
UVC_SUCCESS == "UVC_SUCCESS"
OpenFailures == {"UVC_ERROR_NO_DEVICE", "UVC_ERROR_IO"}
CtrlFailures == {"UVC_ERROR_PIPE"}
StreamFailures == {"UVC_ERROR_INVALID_MODE", "UVC_ERROR_IO"}
DescFailures == {"UVC_ERROR_IO"}

\* newError(ErrorType(r)): nil for success, else the error kind of the status.
newError(r) ==
    CASE r = UVC_SUCCESS -> NoError
      [] r = "UVC_ERROR_IO" -> "IOError"
      [] r = "UVC_ERROR_NO_DEVICE" -> "NoDevice"
      [] r = "UVC_ERROR_PIPE" -> "Pipe"
      [] r = "UVC_ERROR_INVALID_MODE" -> "NotSupported"
      [] OTHER -> "Other"

VARIABLES
    devRef,     \* dev.dev # nil
    handle,     \* dev.handle: Nil or the address of the native handle
    heap,       \* native memory: address -> the handle instance living there, 0 when free
    nOpens,     \* handle instances created so far (instance ids 1..nOpens)
    closes,     \* instance -> times it was passed to uvc_close
    streams,    \* handle.streams # nil for the live handle
    refcount,   \* native reference count of dev.dev
    wmutex,     \* dev.mu: the thread inside Lock()/holding the write lock, or 0
    readers,    \* dev.mu: the threads holding the read lock
    pc,         \* thread -> position in its method
    op,         \* thread -> the method it runs
    ret,        \* thread -> the return value computed
    calls,      \* thread -> native calls and native memory reads of the current method
    ifs,        \* thread -> the named result ifs of its StreamInterfaces call
    itf,        \* thread -> the loop variable of StreamInterfaces: the list being walked
    keptIfs,    \* the StreamInterface values the caller side keeps (latest returned)
    keptFmt,    \* the FormatDescriptor values the caller side keeps (latest returned)
    blk,        \* the Stream the caller side keeps (latest returned by GetStream)
    lastUse,    \* outcome of the latest use of a Stream by the capture side
    ncalls,     \* method calls started
    crashed     \* the process died in native code

vars == <<devRef, handle, heap, nOpens, closes, streams, refcount, wmutex, readers,
          pc, op, ret, calls, ifs, itf, keptIfs, keptFmt, blk, lastUse, ncalls, crashed>>

devVars == <<devRef, handle, heap, nOpens, closes, streams, refcount>>
muVars == <<wmutex, readers>>

held == <<ifs, itf, keptIfs, keptFmt, blk, lastUse>>

NoBlock == [devh |-> Nil, inst |-> 0]
NoRet == [val |-> "-", err |-> "-"]

Init ==
    /\ devRef \in BOOLEAN
    /\ handle = Nil
    /\ heap = [a \in Addrs |-> 0]
    /\ nOpens = 0
    /\ closes = [i \in 1..MaxOpens |-> 0]
    /\ streams = FALSE
    /\ refcount = IF devRef THEN 1 ELSE 0
    /\ wmutex = 0
    /\ readers = {}
    /\ pc = [t \in Threads |-> "idle"]
    /\ op = [t \in Threads |-> "none"]
    /\ ret = [t \in Threads |-> NoRet]
    /\ calls = [t \in Threads |-> <<>>]
    /\ ifs = [t \in Threads |-> <<>>]
    /\ itf = [t \in Threads |-> Nil]
    /\ keptIfs = <<>>
    /\ keptFmt = <<>>
    /\ blk = NoBlock
    /\ lastUse = "none"
    /\ ncalls = 0
    /\ crashed = FALSE

\* ---- sync.RWMutex
Holds(t) == t \in readers \/ (wmutex = t /\ pc[t] \in {"body", "ret"})

\* A native call or a read of native memory, as logged for the method making it:
\* the function, the address passed, whether live native memory backs that address,
\* whether the caller holds dev.mu, and the status the call reported ("-": none).
Native(t, fn, a, live, r) ==
    [fn |-> fn, arg |-> a, live |-> live, locked |-> Holds(t), r |-> r]

\* Live native memory backs address a.
Live(a) == a \in Addrs /\ heap[a] # 0

\* A method is called: the thread leaves idle with fresh locals.
Call(t, name, first) ==
    /\ ~crashed
    /\ pc[t] = "idle"
    /\ ncalls < MaxCalls
    /\ ncalls' = ncalls + 1
    /\ pc' = [pc EXCEPT ![t] = first]
    /\ op' = [op EXCEPT ![t] = name]
    /\ UNCHANGED <<ret, calls>>

\* The method returns to its caller: its locals are gone.
Leave(t) ==
    /\ pc[t] = "ret"
    /\ pc' = [pc EXCEPT ![t] = "idle"]
    /\ op' = [op EXCEPT ![t] = "none"]
    /\ ret' = [ret EXCEPT ![t] = NoRet]
    /\ calls' = [calls EXCEPT ![t] = <<>>]

At(t, name, where) == ~crashed /\ op[t] = name /\ pc[t] = where

\* dev.mu.Lock(): take the writers' mutex (which stops new readers), then wait for
\* the readers inside to leave.
Lock(t) ==
    \/ /\ pc[t] = "lock"
       /\ wmutex = 0
       /\ wmutex' = t
       /\ pc' = [pc EXCEPT ![t] = "drain"]
       /\ UNCHANGED readers
    \/ /\ pc[t] = "drain"
       /\ readers = {}
       /\ pc' = [pc EXCEPT ![t] = "body"]
       /\ UNCHANGED muVars

\* A read lock that does not wait for a writer: the reader walks in beside it.
RLockNoWait(t) ==
    /\ pc[t] = "lock"
    /\ readers' = readers \cup {t}
    /\ pc' = [pc EXCEPT ![t] = "body"]
    /\ UNCHANGED wmutex

\* dev.mu.RLock(): blocks while a writer holds or waits for the lock.
RLock(t) ==
    /\ pc[t] = "lock"
    /\ wmutex = 0
    /\ readers' = readers \cup {t}
    /\ pc' = [pc EXCEPT ![t] = "body"]
    /\ UNCHANGED wmutex

\* A return that skips the deferred unlock.
UnlockKeepsLock(t) ==
    /\ UNCHANGED muVars
    /\ Leave(t)

\* The deferred dev.mu.Unlock() / dev.mu.RUnlock() runs and the method returns.
Unlock(t) ==
    /\ wmutex' = IF wmutex = t THEN 0 ELSE wmutex
    /\ readers' = readers \ {t}
    /\ Leave(t)

\* The body's last step: the return values are set, the deferred unlock is pending.
Return(t, v, e, log) ==
    /\ pc' = [pc EXCEPT ![t] = "ret"]
    /\ ret' = [ret EXCEPT ![t] = [val |-> v, err |-> e]]
    /\ calls' = [calls EXCEPT ![t] = calls[t] \o log]

\* The process dies inside native code (a nil or freed pointer was dereferenced).
Crash(t, log) ==
    /\ crashed' = TRUE
    /\ calls' = [calls EXCEPT ![t] = calls[t] \o log]
    /\ UNCHANGED <<pc, ret>>

\* ---- Open
\* uvc_open(dev.dev, &dev.handle) reporting status r: success stores a new handle,
\* at a free address, in dev.handle; a failure leaves dev.handle as it was.
uvc_open(r) ==
    /\ devRef
    /\ IF r = UVC_SUCCESS
       THEN /\ nOpens < MaxOpens
            /\ \E a \in Addrs :
                 /\ heap[a] = 0
                 /\ heap' = [heap EXCEPT ![a] = nOpens + 1]
                 /\ handle' = a
            /\ nOpens' = nOpens + 1
            /\ streams' = FALSE
            /\ UNCHANGED <<devRef, closes, refcount>>
       ELSE UNCHANGED devVars

\* Open without the "already open" guard: every call reaches the native open.
OpenBodyNoGuard(t) ==
    /\ \E r \in {UVC_SUCCESS} \cup OpenFailures :
         /\ uvc_open(r)
         /\ Return(t, "-", newError(r), <<Native(t, "uvc_open", Nil, devRef, r)>>)
    /\ UNCHANGED crashed

\* Open that drops the native status and reports success.
OpenBodyDropsError(t) ==
    IF handle # Nil
    THEN /\ Return(t, "-", NoError, <<>>)
         /\ UNCHANGED <<devVars, crashed>>
    ELSE /\ \E r \in {UVC_SUCCESS} \cup OpenFailures :
              /\ uvc_open(r)
              /\ Return(t, "-", NoError, <<Native(t, "uvc_open", Nil, devRef, r)>>)
         /\ UNCHANGED crashed

\* Open that works once: after a first native open it never makes another.
OpenBodyOnce(t) ==
    IF handle # Nil \/ nOpens > 0
    THEN /\ Return(t, "-", NoError, <<>>)
         /\ UNCHANGED <<devVars, crashed>>
    ELSE /\ \E r \in {UVC_SUCCESS} \cup OpenFailures :
              /\ uvc_open(r)
              /\ Return(t, "-", newError(r), <<Native(t, "uvc_open", Nil, devRef, r)>>)
         /\ UNCHANGED crashed

OpenBody(t) ==
    IF handle # Nil
    THEN /\ Return(t, "-", NoError, <<>>)
         /\ UNCHANGED <<devVars, crashed>>
    ELSE \/ \E r \in {UVC_SUCCESS} \cup OpenFailures :
              /\ uvc_open(r)
              /\ Return(t, "-", newError(r), <<Native(t, "uvc_open", Nil, devRef, r)>>)
              /\ UNCHANGED crashed
         \/ /\ ~devRef      \* a nil device: the library dereferences it
            /\ Crash(t, <<Native(t, "uvc_open", Nil, devRef, "-")>>)
            /\ UNCHANGED devVars

Open(t) ==
    \/ /\ Call(t, "Open", "lock")
       /\ UNCHANGED <<devVars, muVars, held, crashed>>
    \/ /\ At(t, "Open", pc[t])
       /\ Lock(t)
       /\ UNCHANGED <<devVars, held, op, ret, calls, ncalls, crashed>>
    \/ /\ At(t, "Open", "body")
       /\ OpenBody(t)
       /\ UNCHANGED <<muVars, held, op, ncalls>>
    \/ /\ At(t, "Open", "ret")
       /\ Unlock(t)
       /\ UNCHANGED <<devVars, held, ncalls, crashed>>

\* ---- Close
\* uvc_close(dev.handle): frees the handle and everything it owns.  Passed nil, the
\* library either tolerates it or dereferences it.
uvc_close ==
    IF handle # Nil
    THEN /\ heap' = [heap EXCEPT ![handle] = 0]
         /\ closes' = [closes EXCEPT ![heap[handle]] = @ + 1]
         /\ streams' = FALSE
         /\ UNCHANGED <<devRef, nOpens, refcount>>
    ELSE UNCHANGED <<devRef, heap, nOpens, closes, streams, refcount>>

\* Close that tears the handle down and forgets to clear dev.handle.
CloseBodyKeepsHandle(t) ==
    /\ uvc_close
    /\ handle' = handle
    /\ Return(t, "-", NoError, <<Native(t, "uvc_close", handle, Live(handle), "-")>>)
    /\ UNCHANGED crashed

CloseBody(t) ==
    \/ /\ uvc_close
       /\ handle' = Nil
       /\ Return(t, "-", NoError, <<Native(t, "uvc_close", handle, Live(handle), "-")>>)
       /\ UNCHANGED crashed
    \/ /\ handle = Nil
       /\ Crash(t, <<Native(t, "uvc_close", handle, FALSE, "-")>>)
       /\ UNCHANGED devVars

Close(t) ==
    \/ /\ Call(t, "Close", "lock")
       /\ UNCHANGED <<devVars, muVars, held, crashed>>
    \/ /\ At(t, "Close", pc[t])
       /\ Lock(t)
       /\ UNCHANGED <<devVars, held, op, ret, calls, ncalls, crashed>>
    \/ /\ At(t, "Close", "body")
       /\ CloseBody(t)
       /\ UNCHANGED <<muVars, held, op, ncalls>>
    \/ /\ At(t, "Close", "ret")
       /\ Unlock(t)
       /\ UNCHANGED <<devVars, held, ncalls, crashed>>

\* ---- the steps every read-locked method shares
ReadCall(t, name) ==
    /\ Call(t, name, "lock")
    /\ UNCHANGED <<devVars, muVars, held, crashed>>

ReadLock(t, name) ==
    /\ At(t, name, "lock")
    /\ RLock(t)
    /\ UNCHANGED <<devVars, held, op, ret, calls, ncalls, crashed>>

ReadUnlock(t, name) ==
    /\ At(t, name, "ret")
    /\ Unlock(t)
    /\ UNCHANGED <<devVars, held, ncalls, crashed>>

\* The nil check passed: the method goes on to the statement that uses dev.handle.
Proceed(t) ==
    /\ pc' = [pc EXCEPT ![t] = "use"]
    /\ UNCHANGED <<ret, calls>>

\* ---- control setters
\* A setter without the nil check: the native call is made on whatever dev.handle is.
SetterBodyNoGuard(t, fn) == Proceed(t)

\* if dev.handle == nil { return ErrDeviceClosed }
SetterBody(t, fn) ==
    IF handle = Nil
    THEN Return(t, "-", ErrDeviceClosed, <<>>)
    ELSE Proceed(t)

\* r := C.uvc_set_...(dev.handle, v); return newError(r).  dev.handle is read again.
SetterUse(t, fn) ==
    \E r \in {UVC_SUCCESS} \cup CtrlFailures :
        Return(t, "-", newError(r), <<Native(t, fn, handle, Live(handle), r)>>)

Setter(t, name, fn) ==
    \/ ReadCall(t, name)
    \/ ReadLock(t, name)
    \/ /\ At(t, name, "body")
       /\ SetterBody(t, fn)
       /\ UNCHANGED <<devVars, muVars, held, op, ncalls, crashed>>
    \/ /\ At(t, name, "use")
       /\ SetterUse(t, fn)
       /\ UNCHANGED <<devVars, muVars, held, op, ncalls, crashed>>
    \/ ReadUnlock(t, name)

SetAEMode(t) == Setter(t, "SetAEMode", "uvc_set_ae_mode")
SetAEPriority(t) == Setter(t, "SetAEPriority", "uvc_set_ae_priority")
SetExposureRelative(t) == Setter(t, "SetExposureRelative", "uvc_set_exposure_rel")
SetBrightness(t) == Setter(t, "SetBrightness", "uvc_set_brightness")

Setters == {"SetAEMode", "SetAEPriority", "SetExposureRelative", "SetBrightness"}

\* ---- catalog queries
\* Reading native memory that has been freed: the read returns whatever is there,
\* or the process dies.
\* ControlInterface without the nil check.
ControlInterfaceBodyNoGuard(t) == Proceed(t)

\* if dev.handle == nil { return nil }
ControlInterfaceBody(t) ==
    IF handle = Nil
    THEN Return(t, "nil", "-", <<>>)
    ELSE Proceed(t)

\* ifc := dev.handle.info.ctrl_if, copied into the returned value.
ControlInterfaceUse(t) ==
    Return(t, "ControlInterface", "-",
           <<Native(t, "read handle.info.ctrl_if", handle, Live(handle), "-")>>)

ControlInterface(t) ==
    \/ ReadCall(t, "ControlInterface")
    \/ ReadLock(t, "ControlInterface")
    \/ /\ At(t, "ControlInterface", "body")
       /\ ControlInterfaceBody(t)
       /\ UNCHANGED <<devVars, muVars, held, op, ncalls, crashed>>
    \/ /\ At(t, "ControlInterface", "use")
       /\ ControlInterfaceUse(t)
       /\ UNCHANGED <<devVars, muVars, held, op, ncalls, crashed>>
    \/ ReadUnlock(t, "ControlInterface")

\* The StreamInterface built from node k of the list of the handle at address a.
\* inst names the handle instance whose memory the itf pointer borrows.
StreamInterfaceAt(a, k) == [itf |-> a, Number |-> k, inst |-> heap[a]]

\* StreamInterfaces holding the read lock for the nil check only: it is released
\* once the head of the list has been loaded, before the walk.
StreamInterfacesGuardEarlyUnlock(t) ==
    IF handle = Nil \/ NumIfs = 0
    THEN /\ Return(t, "ifs", "-", <<>>)
         /\ ifs' = [ifs EXCEPT ![t] = <<>>]
         /\ UNCHANGED <<itf, muVars>>
    ELSE /\ pc' = [pc EXCEPT ![t] = "loop"]
         /\ ifs' = [ifs EXCEPT ![t] = <<>>]
         /\ itf' = [itf EXCEPT ![t] = handle]
         /\ calls' = [calls EXCEPT ![t] =
                <<Native(t, "read handle.info.stream_ifs", handle, Live(handle), "-")>>]
         /\ readers' = readers \ {t}
         /\ UNCHANGED <<ret, wmutex>>

\* if dev.handle == nil { return }; itf := dev.handle.info.stream_ifs
StreamInterfacesGuard(t) ==
    IF handle = Nil \/ NumIfs = 0
    THEN /\ Return(t, "ifs", "-", <<>>)
         /\ ifs' = [ifs EXCEPT ![t] = <<>>]
         /\ UNCHANGED <<itf, muVars>>
    ELSE /\ pc' = [pc EXCEPT ![t] = "loop"]
         /\ ifs' = [ifs EXCEPT ![t] = <<>>]
         /\ itf' = [itf EXCEPT ![t] = handle]
         /\ calls' = [calls EXCEPT ![t] =
                <<Native(t, "read handle.info.stream_ifs", handle, Live(handle), "-")>>]
         /\ UNCHANGED <<ret, muVars>>

\* One turn of the loop: copy the node, then itf = itf.next; leave at nil.
StreamInterfacesLoop(t) ==
    LET k == Len(ifs[t]) + 1
        node == Native(t, "read itf", itf[t], Live(itf[t]), "-")
    IN  /\ ifs' = [ifs EXCEPT ![t] = Append(@, StreamInterfaceAt(itf[t], k))]
        /\ IF k = NumIfs
           THEN /\ Return(t, "ifs", "-", <<node>>)
                /\ itf' = [itf EXCEPT ![t] = Nil]
           ELSE /\ calls' = [calls EXCEPT ![t] = Append(@, node)]
                /\ UNCHANGED <<pc, ret, itf>>

StreamInterfaces(t) ==
    \/ ReadCall(t, "StreamInterfaces")
    \/ ReadLock(t, "StreamInterfaces")
    \/ /\ At(t, "StreamInterfaces", "body")
       /\ StreamInterfacesGuard(t)
       /\ UNCHANGED <<devVars, keptIfs, keptFmt, blk, lastUse, op, ncalls, crashed>>
    \/ /\ At(t, "StreamInterfaces", "loop")
       /\ StreamInterfacesLoop(t)
       /\ UNCHANGED <<devVars, muVars, keptIfs, keptFmt, blk, lastUse, op, ncalls, crashed>>
    \/ /\ At(t, "StreamInterfaces", "ret")
       /\ Unlock(t)
       /\ keptIfs' = ifs[t]
       /\ ifs' = [ifs EXCEPT ![t] = <<>>]
       /\ UNCHANGED <<devVars, itf, keptFmt, blk, lastUse, ncalls, crashed>>

\* A method that takes no lock: called, then its body, then it returns.
FreeCall(t, name) == Call(t, name, "body")

FreeReturn(t, name) ==
    /\ At(t, name, "ret")
    /\ Leave(t)
    /\ UNCHANGED <<devVars, muVars, held, ncalls, crashed>>

\* StreamInterface.FormatDescriptors of a value the caller holds: walks
\* i.itf.format_descs, with no lock.
FormatDescriptorsBody(t, i) ==
    LET alive == Live(i.itf) /\ heap[i.itf] = i.inst
        read == Native(t, "read itf.format_descs", i.itf, alive, "-")
    IN  \/ /\ keptFmt' = <<[desc |-> i.itf, inst |-> i.inst]>>
           /\ Return(t, IF alive THEN "descs" ELSE "garbage", "-", <<read>>)
           /\ UNCHANGED crashed
        \/ /\ ~alive
           /\ Crash(t, <<read>>)
           /\ UNCHANGED keptFmt

FormatDescriptors(t) ==
    \/ /\ keptIfs # <<>>
       /\ FreeCall(t, "FormatDescriptors")
       /\ UNCHANGED <<devVars, muVars, held, crashed>>
    \/ /\ At(t, "FormatDescriptors", "body")
       /\ \E k \in 1..Len(keptIfs) : FormatDescriptorsBody(t, keptIfs[k])
       /\ UNCHANGED <<devVars, muVars, ifs, itf, keptIfs, blk, lastUse, op, ncalls>>
    \/ FreeReturn(t, "FormatDescriptors")

\* FormatDescriptor.FrameDescriptors of a value the caller holds: walks
\* d.desc.frame_descs, with no lock.
FrameDescriptorsBody(t, d) ==
    LET alive == Live(d.desc) /\ heap[d.desc] = d.inst
        read == Native(t, "read desc.frame_descs", d.desc, alive, "-")
    IN  \/ /\ Return(t, IF alive THEN "descs" ELSE "garbage", "-", <<read>>)
           /\ UNCHANGED crashed
        \/ /\ ~alive
           /\ Crash(t, <<read>>)

FrameDescriptors(t) ==
    \/ /\ keptFmt # <<>>
       /\ FreeCall(t, "FrameDescriptors")
       /\ UNCHANGED <<devVars, muVars, held, crashed>>
    \/ /\ At(t, "FrameDescriptors", "body")
       /\ FrameDescriptorsBody(t, keptFmt[1])
       /\ UNCHANGED <<devVars, muVars, held, op, ncalls>>
    \/ FreeReturn(t, "FrameDescriptors")

\* ---- Descriptor: no lock; guarded by dev.dev only
\* Descriptor guarded like the handle-bound methods: it wants an open Device.
DescriptorBodyGuardsHandle(t) ==
    IF ~devRef \/ handle = Nil
    THEN Return(t, "nil", IF devRef THEN ErrDeviceClosed ELSE ErrDeviceNotFound, <<>>)
    ELSE \E r \in {UVC_SUCCESS} \cup DescFailures :
            Return(t, IF r = UVC_SUCCESS THEN "DeviceDescriptor" ELSE "nil", newError(r),
                   <<Native(t, "uvc_get_device_descriptor", Nil, devRef, r)>>)

DescriptorBody(t) ==
    IF ~devRef
    THEN Return(t, "nil", ErrDeviceNotFound, <<>>)
    ELSE \E r \in {UVC_SUCCESS} \cup DescFailures :
            Return(t, IF r = UVC_SUCCESS THEN "DeviceDescriptor" ELSE "nil", newError(r),
                   <<Native(t, "uvc_get_device_descriptor", Nil, devRef, r)>>)

Descriptor(t) ==
    \/ /\ FreeCall(t, "Descriptor")
       /\ UNCHANGED <<devVars, muVars, held, crashed>>
    \/ /\ At(t, "Descriptor", "body")
       /\ DescriptorBody(t)
       /\ UNCHANGED <<devVars, muVars, held, op, ncalls, crashed>>
    \/ FreeReturn(t, "Descriptor")

\* ---- GetStream
\* GetStream without the nil check: negotiates on whatever dev.handle is.
GetStreamBodyNoGuard(t) ==
    /\ Proceed(t)
    /\ UNCHANGED blk

\* if dev.handle == nil { return nil, ErrDeviceClosed }
GetStreamBody(t) ==
    IF handle = Nil
    THEN /\ Return(t, "nil", ErrDeviceClosed, <<>>)
         /\ UNCHANGED blk
    ELSE /\ Proceed(t)
         /\ UNCHANGED blk

\* GetStream that builds the Stream before looking at the native status, and
\* returns it beside the error.
GetStreamUseBlockOnError(t) ==
    \E r \in {UVC_SUCCESS} \cup StreamFailures :
        /\ Return(t, "Stream", newError(r),
                  <<Native(t, "uvc_get_stream_ctrl_format_size", handle, Live(handle), r)>>)
        /\ blk' = [devh |-> handle, inst |-> IF handle = Nil THEN 0 ELSE heap[handle]]

\* r := C.uvc_get_stream_ctrl_format_size(dev.handle, ...); on an error return
\* (nil, err), else &Stream{devh: dev.handle, ...}.  dev.handle is read again.
GetStreamUse(t) ==
    \E r \in {UVC_SUCCESS} \cup StreamFailures :
        /\ Return(t, IF r = UVC_SUCCESS THEN "Stream" ELSE "nil", newError(r),
                  <<Native(t, "uvc_get_stream_ctrl_format_size", handle, Live(handle), r)>>)
        /\ blk' = IF r = UVC_SUCCESS
                  THEN [devh |-> handle, inst |-> IF handle = Nil THEN 0 ELSE heap[handle]]
                  ELSE blk

\* GetStream that gives the handle up when the negotiation fails.
GetStreamResetsOnError(t) ==
    \/ ReadCall(t, "GetStream")
    \/ ReadLock(t, "GetStream")
    \/ /\ At(t, "GetStream", "body")
       /\ GetStreamBody(t)
       /\ UNCHANGED <<devVars, muVars, ifs, itf, keptIfs, keptFmt, lastUse, op, ncalls, crashed>>
    \/ /\ At(t, "GetStream", "use")
       /\ GetStreamUse(t)
       /\ handle' = IF ret'[t].err = NoError THEN handle ELSE Nil
       /\ UNCHANGED <<devRef, heap, nOpens, closes, streams, refcount, muVars,
                      ifs, itf, keptIfs, keptFmt, lastUse, op, ncalls, crashed>>
    \/ ReadUnlock(t, "GetStream")

GetStream(t) ==
    \/ ReadCall(t, "GetStream")
    \/ ReadLock(t, "GetStream")
    \/ /\ At(t, "GetStream", "body")
       /\ GetStreamBody(t)
       /\ UNCHANGED <<devVars, muVars, ifs, itf, keptIfs, keptFmt, lastUse, op, ncalls, crashed>>
    \/ /\ At(t, "GetStream", "use")
       /\ GetStreamUse(t)
       /\ UNCHANGED <<devVars, muVars, ifs, itf, keptIfs, keptFmt, lastUse, op, ncalls, crashed>>
    \/ ReadUnlock(t, "GetStream")

\* ---- Ref / Unref
Pending(name) == Cardinality({u \in Threads : op[u] = name /\ pc[u] \in {"lock", "body"}})

RefBody(t) ==
    /\ refcount' = IF handle = Nil THEN refcount ELSE refcount + 1
    /\ Return(t, "-", "-",
              IF handle = Nil THEN <<>> ELSE <<Native(t, "uvc_ref_device", Nil, devRef, "-")>>)
    /\ UNCHANGED <<devRef, handle, heap, nOpens, closes, streams>>

Ref(t) ==
    \/ /\ refcount + Pending("Ref") < MaxRef
       /\ ReadCall(t, "Ref")
    \/ ReadLock(t, "Ref")
    \/ /\ At(t, "Ref", "body")
       /\ RefBody(t)
       /\ UNCHANGED <<muVars, held, op, ncalls, crashed>>
    \/ ReadUnlock(t, "Ref")

UnrefBody(t) ==
    /\ refcount' = IF handle = Nil THEN refcount ELSE refcount - 1
    /\ Return(t, "-", "-",
              IF handle = Nil THEN <<>> ELSE <<Native(t, "uvc_unref_device", Nil, devRef, "-")>>)
    /\ UNCHANGED <<devRef, handle, heap, nOpens, closes, streams>>

Unref(t) ==
    \/ /\ refcount - Pending("Unref") > 1
       /\ ReadCall(t, "Unref")
    \/ ReadLock(t, "Unref")
    \/ /\ At(t, "Unref", "body")
       /\ UnrefBody(t)
       /\ UNCHANGED <<muVars, held, op, ncalls, crashed>>
    \/ ReadUnlock(t, "Unref")

\* ---- predicates
Bool(b) == IF b THEN "true" ELSE "false"

\* IsIdle that looks at the handle only, never at its streams.
IsIdleBodyIgnoresStreams(t) == Return(t, Bool(handle = Nil), "-", <<>>)

IsIdleBody(t) ==
    Return(t, Bool(handle = Nil \/ ~streams), "-",
           IF handle = Nil THEN <<>>
           ELSE <<Native(t, "read handle.streams", handle, Live(handle), "-")>>)

IsIdle(t) ==
    \/ ReadCall(t, "IsIdle")
    \/ ReadLock(t, "IsIdle")
    \/ /\ At(t, "IsIdle", "body")
       /\ IsIdleBody(t)
       /\ UNCHANGED <<devVars, muVars, held, op, ncalls, crashed>>
    \/ ReadUnlock(t, "IsIdle")

IsClosedBody(t) == Return(t, Bool(handle = Nil), "-", <<>>)

IsClosed(t) ==
    \/ ReadCall(t, "IsClosed")
    \/ ReadLock(t, "IsClosed")
    \/ /\ At(t, "IsClosed", "body")
       /\ IsClosedBody(t)
       /\ UNCHANGED <<devVars, muVars, held, op, ncalls, crashed>>
    \/ ReadUnlock(t, "IsClosed")

\* ---- the capture side uses a Stream it was given
\* The guard an implementation can make with what the Stream carries, the handle
\* pointer devh: the use is rejected unless devh is the Device's present handle,
\* checked while no Open or Close is inside the lock.  An accepted use starts a
\* stream on the handle living at devh.
StreamUse(t) ==
    /\ ~crashed
    /\ pc[t] = "idle"
    /\ wmutex = 0
    /\ blk # NoBlock
    /\ IF handle # Nil /\ blk.devh = handle
       THEN /\ streams' = TRUE
            /\ lastUse' = IF heap[blk.devh] = blk.inst THEN "accepted" ELSE "accepted stale"
       ELSE /\ lastUse' = "rejected"
            /\ UNCHANGED streams
    /\ UNCHANGED <<devRef, handle, heap, nOpens, closes, refcount, muVars,
                   pc, op, ret, calls, ifs, itf, keptIfs, keptFmt, blk, ncalls, crashed>>

Next ==
    \E t \in Threads :
        \/ Open(t)
        \/ Close(t)
        \/ SetAEMode(t)
        \/ SetAEPriority(t)
        \/ SetExposureRelative(t)
        \/ SetBrightness(t)
        \/ ControlInterface(t)
        \/ StreamInterfaces(t)
        \/ FormatDescriptors(t)
        \/ FrameDescriptors(t)
        \/ Descriptor(t)
        \/ GetStream(t)
        \/ Ref(t)
        \/ Unref(t)
        \/ IsIdle(t)
        \/ IsClosed(t)
        \/ StreamUse(t)

\* Every operation, interleaved.
Spec == Init /\ [][Next]_vars

\* A property of a group of operations is verified in the composition of that
\* group with Open and Close, the only writers of dev.handle.

\* The life cycle and the control setters.
NextLife ==
    \E t \in Threads :
        \/ Open(t)
        \/ Close(t)
        \/ SetAEMode(t)
        \/ SetAEPriority(t)
        \/ SetExposureRelative(t)
        \/ SetBrightness(t)

SpecLife == Init /\ [][NextLife]_vars

\* The life cycle and the catalog queries.
NextCatalog ==
    \E t \in Threads :
        \/ Open(t)
        \/ Close(t)
        \/ ControlInterface(t)
        \/ StreamInterfaces(t)
        \/ FormatDescriptors(t)
        \/ FrameDescriptors(t)

SpecCatalog == Init /\ [][NextCatalog]_vars

\* The life cycle and the stream negotiation.
NextStream ==
    \E t \in Threads :
        \/ Open(t)
        \/ Close(t)
        \/ GetStream(t)
        \/ StreamUse(t)

SpecStream == Init /\ [][NextStream]_vars

\* The life cycle and the reference count.
NextRef ==
    \E t \in Threads :
        \/ Open(t)
        \/ Close(t)
        \/ Ref(t)
        \/ Unref(t)

SpecRef == Init /\ [][NextRef]_vars

\* The life cycle, streams and the predicates.
NextPredicates ==
    \E t \in Threads :
        \/ Open(t)
        \/ Close(t)
        \/ GetStream(t)
        \/ StreamUse(t)
        \/ IsIdle(t)
        \/ IsClosed(t)

SpecPredicates == Init /\ [][NextPredicates]_vars

\* The life cycle and every method that takes the Device but is no writer of
\* dev.handle.
NextReaders ==
    \E t \in Threads :
        \/ Open(t)
        \/ Close(t)
        \/ SetAEMode(t)
        \/ SetAEPriority(t)
        \/ SetExposureRelative(t)
        \/ SetBrightness(t)
        \/ ControlInterface(t)
        \/ StreamInterfaces(t)
        \/ GetStream(t)
        \/ Ref(t)
        \/ Unref(t)
        \/ Descriptor(t)
        \/ IsIdle(t)
        \/ IsClosed(t)

SpecReaders == Init /\ [][NextReaders]_vars

\* The life cycle and the device descriptor.
NextDescriptor ==
    \E t \in Threads :
        \/ Open(t)
        \/ Close(t)
        \/ Descriptor(t)

SpecDescriptor == Init /\ [][NextDescriptor]_vars

\* The life cycle and the methods that check dev.handle before they use it; of
\* the four setters, which are one body with four native functions, two.
NextGuarded ==
    \E t \in Threads :
        \/ Open(t)
        \/ Close(t)
        \/ SetAEMode(t)
        \/ SetBrightness(t)
        \/ ControlInterface(t)
        \/ StreamInterfaces(t)
        \/ GetStream(t)

SpecGuarded == Init /\ [][NextGuarded]_vars

\* Progress.  A method that has been called keeps running: the scheduler does not
\* stop a goroutine for ever, and sync.RWMutex hands the lock to a waiter once it
\* stays free.  Whether a method is called at all is up to the caller.
NextProgress ==
    \E t \in Threads :
        \/ Open(t)
        \/ Close(t)
        \/ GetStream(t)
        \/ SetBrightness(t)

Running(t) ==
    /\ pc[t] # "idle"
    /\ \/ Open(t)
       \/ Close(t)
       \/ GetStream(t)
       \/ SetBrightness(t)

SpecProgress ==
    Init /\ [][NextProgress]_vars /\ \A t \in Threads : WF_vars(Running(t))

\* ======================================================================
\* Properties
\* ======================================================================

Returned(t, name) == op[t] = name /\ pc[t] = "ret"

\* Thread t takes the body step of method name and reaches its return.
BodyStep(t, name) == op[t] = name /\ pc[t] = "body" /\ pc'[t] # "body"

\* C1: Idempotent open.  When Open runs its body on a Device that is already Open,
\* it returns nil, makes no native call, and leaves dev.handle, the native handle
\* behind it and the count of handles opened exactly as they were.
C1_IdempotentOpen ==
    [][\A t \in Threads :
          (BodyStep(t, "Open") /\ handle # Nil) =>
              /\ ret'[t].err = NoError
              /\ calls'[t] = <<>>
              /\ handle' = handle
              /\ heap' = heap
              /\ nOpens' = nOpens]_vars

\* A second Open has returned on an open Device without a native call.
C1_Witness ==
    \E t \in Threads :
        Returned(t, "Open") /\ calls[t] = <<>> /\ handle # Nil /\ ret[t].err = NoError

\* C2: Failed open.  When Open returns after a native open that reported a
\* failure, it returns the translation of that status (not nil), it made exactly
\* one native call, and dev.handle is nil (the deferred unlock still pending).
C2_FailedOpen ==
    \A t \in Threads :
        (/\ Returned(t, "Open")
         /\ \E i \in 1..Len(calls[t]) : calls[t][i].r # UVC_SUCCESS)
        => /\ Len(calls[t]) = 1
           /\ calls[t][1].fn = "uvc_open"
           /\ ret[t].err = newError(calls[t][1].r)
           /\ ret[t].err # NoError
           /\ handle = Nil
           /\ \A a \in Addrs : heap[a] = 0

\* An Open has returned an error of a failed native open.
C2_Witness ==
    \E t \in Threads :
        /\ Returned(t, "Open")
        /\ Len(calls[t]) = 1
        /\ calls[t][1].r \in OpenFailures
        /\ ret[t].err \in {"NoDevice", "IOError"}

\* C3: Guarded setters.  Whenever one of the four control setters has computed
\* its result while dev.handle is nil, the result is ErrDeviceClosed and the
\* setter made no native call.
C3_GuardedSetters ==
    \A t \in Threads :
        (op[t] \in Setters /\ pc[t] = "ret" /\ handle = Nil)
        => ret[t].err = ErrDeviceClosed /\ calls[t] = <<>>

\* Two setters have returned ErrDeviceClosed on a Device that was open before and
\* is closed now.
C3_Witness ==
    /\ handle = Nil
    /\ nOpens > 0
    /\ \E t, u \in Threads :
         /\ t # u
         /\ op[t] \in Setters /\ pc[t] = "ret" /\ ret[t].err = ErrDeviceClosed
         /\ op[u] \in Setters /\ pc[u] = "ret" /\ ret[u].err = ErrDeviceClosed
         /\ op[t] # op[u]

\* C4: Close always reaches Closed.  Whenever a Close has computed its result,
\* dev.handle is nil, no native handle is left alive, and the result is nil.
C4_CloseReachesClosed ==
    \A t \in Threads :
        Returned(t, "Close")
        => /\ handle = Nil
           /\ ret[t].err = NoError
           /\ \A a \in Addrs : heap[a] = 0

\* A Close has returned after tearing down an open handle.
C4_Witness ==
    \E t \in Threads :
        /\ Returned(t, "Close")
        /\ calls[t][1].fn = "uvc_close"
        /\ calls[t][1].arg # Nil
        /\ handle = Nil

\* C5: Close on a Closed Device is guarded.  No native teardown call is ever made
\* on an absent handle: every uvc_close logged was passed a handle.
C5_CloseGuarded ==
    \A t \in Threads :
        \A i \in 1..Len(calls[t]) :
            calls[t][i].fn = "uvc_close" => calls[t][i].arg # Nil

\* C6: Stale block rejection.  No use of a Stream is accepted once the handle
\* instance it was negotiated on has been closed, whether or not the Device has
\* been opened again since.
C6_StaleBlockRejected == lastUse # "accepted stale"

\* C7: Concurrent traversal safety.  While StreamInterfaces walks the list, the
\* handle it found is still dev.handle and its memory is alive, so no Close has
\* completed since the nil check; every read of the walk is made on live memory
\* under the lock; and the result is the whole list of the open handle, or empty
\* on a closed Device.
C7_TraversalSafe ==
    \A t \in Threads :
        /\ (op[t] = "StreamInterfaces" /\ pc[t] = "loop")
           => /\ handle = itf[t]
              /\ Live(itf[t])
              /\ \A k \in 1..Len(ifs[t]) : ifs[t][k].inst = heap[itf[t]]
        /\ op[t] = "StreamInterfaces"
           => \A i \in 1..Len(calls[t]) : calls[t][i].live /\ calls[t][i].locked
        /\ Returned(t, "StreamInterfaces")
           => \/ handle = Nil /\ ifs[t] = <<>>
              \/ /\ handle # Nil
                 /\ Len(ifs[t]) = NumIfs
                 /\ \A k \in 1..NumIfs :
                      ifs[t][k] = [itf |-> handle, Number |-> k, inst |-> heap[handle]]

\* A traversal has copied a node and not yet the last, while a Close has taken the
\* writers' mutex and waits for the traversal's read lock.
C7_Witness ==
    \E t, u \in Threads :
        /\ op[t] = "StreamInterfaces" /\ pc[t] = "loop" /\ Len(ifs[t]) >= 1
        /\ op[u] = "Close" /\ pc[u] = "drain"

\* The reads of handle-owned native memory made by the catalog queries.
CatalogReads ==
    {"read handle.info.ctrl_if", "read handle.info.stream_ifs", "read itf",
     "read itf.format_descs", "read desc.frame_descs"}

\* A value the caller side keeps points into the memory of a live handle instance.
Borrowed(a, inst) == Live(a) /\ heap[a] = inst

\* C8: Full-tree lock scope.  Every read of handle-owned native memory by a catalog
\* query is made with the read lock held and on live memory, and no catalog value
\* returned to a caller holds a pointer into memory that Close has freed.
C8_FullTreeLockScope ==
    /\ \A t \in Threads :
         \A i \in 1..Len(calls[t]) :
            calls[t][i].fn \in CatalogReads => calls[t][i].locked /\ calls[t][i].live
    /\ \A k \in 1..Len(keptIfs) : Borrowed(keptIfs[k].itf, keptIfs[k].inst)
    /\ \A k \in 1..Len(keptFmt) : Borrowed(keptFmt[k].desc, keptFmt[k].inst)

\* C9: Graceful degrade.  Whenever ControlInterface or StreamInterfaces has
\* computed its result while dev.handle is nil, the result is nil, respectively
\* the empty sequence, with no error and no read of native memory.
C9_GracefulDegrade ==
    \A t \in Threads :
        /\ (Returned(t, "ControlInterface") /\ handle = Nil)
           => ret[t] = [val |-> "nil", err |-> "-"] /\ calls[t] = <<>>
        /\ (Returned(t, "StreamInterfaces") /\ handle = Nil)
           => ret[t] = [val |-> "ifs", err |-> "-"] /\ ifs[t] = <<>> /\ calls[t] = <<>>

\* Both queries have returned on a Device that was open before and is closed now.
C9_Witness ==
    /\ handle = Nil
    /\ nOpens > 0
    /\ \E t, u \in Threads :
         /\ Returned(t, "ControlInterface") /\ ret[t].val = "nil"
         /\ Returned(u, "StreamInterfaces") /\ ifs[u] = <<>>

\* C10: GetStream guard.  When GetStream runs its body while dev.handle is nil, it
\* returns (nil, ErrDeviceClosed), makes no native call, and hands no Stream to
\* the caller.
C10_GetStreamGuard ==
    [][\A t \in Threads :
          (BodyStep(t, "GetStream") /\ handle = Nil) =>
              /\ ret'[t] = [val |-> "nil", err |-> ErrDeviceClosed]
              /\ calls'[t] = <<>>
              /\ blk' = blk]_vars

\* A GetStream has returned ErrDeviceClosed on a Device that was open before, while
\* the caller side still keeps the Stream of an earlier call.
C10_Witness ==
    \E t \in Threads :
        /\ Returned(t, "GetStream")
        /\ handle = Nil
        /\ ret[t] = [val |-> "nil", err |-> ErrDeviceClosed]
        /\ blk # NoBlock

\* C11: GetStream result exclusivity.  Whenever GetStream has computed its result
\* on an open Device, it made one negotiation call and the result is either
\* (Stream, nil), the Stream being bound to dev.handle, after a success, or
\* (nil, the translated error) after a failure; never both, never neither.
C11_GetStreamExclusive ==
    \A t \in Threads :
        (Returned(t, "GetStream") /\ handle # Nil)
        => /\ Len(calls[t]) = 1
           /\ calls[t][1].fn = "uvc_get_stream_ctrl_format_size"
           /\ \/ /\ calls[t][1].r = UVC_SUCCESS
                 /\ ret[t] = [val |-> "Stream", err |-> NoError]
                 /\ blk = [devh |-> handle, inst |-> heap[handle]]
              \/ /\ calls[t][1].r \in StreamFailures
                 /\ ret[t] = [val |-> "nil", err |-> newError(calls[t][1].r)]
                 /\ ret[t].err # NoError

\* A GetStream on an open Device has returned (nil, NotSupported) for a mode the
\* device does not have, while another has returned (nil, IOError).
C11_Witness ==
    \E t, u \in Threads :
        /\ handle # Nil
        /\ Returned(t, "GetStream")
        /\ calls[t][1].r = "UVC_ERROR_INVALID_MODE"
        /\ ret[t] = [val |-> "nil", err |-> "NotSupported"]
        /\ Returned(u, "GetStream")
        /\ ret[u] = [val |-> "nil", err |-> "IOError"]
\* A method is in progress: called and, if it takes dev.mu, past the acquisition.
InProgress(t) == pc[t] \in {"body", "use", "loop", "ret"}

\* C12: Writer exclusivity.  While an Open or a Close is in progress, no other
\* operation on the Device is in progress.
C12_WriterExclusive ==
    \A t, u \in Threads :
        (t # u /\ op[t] \in {"Open", "Close"} /\ InProgress(t)) => ~InProgress(u)

\* C13: The reference count is independent of the handle state.  Every Ref
\* raises and every Unref lowers the native count by exactly one, on an open
\* Device and on a closed one.
C13_RefcountIndependent ==
    [][\A t \in Threads :
          /\ BodyStep(t, "Ref") => refcount' = refcount + 1
          /\ BodyStep(t, "Unref") => refcount' = refcount - 1]_vars
Predicates == {"IsIdle", "IsClosed"}

\* C14: IsIdle and IsClosed are pure predicates of the current state.  IsClosed
\* answers true exactly when the handle is absent, IsIdle exactly when the Device
\* is closed or is open with no active stream, and no step of either method
\* changes the Device, the streams or anything a caller holds.
C14_PurePredicates ==
    [][\A t \in Threads :
          /\ BodyStep(t, "IsClosed") => ret'[t].val = Bool(handle = Nil)
          /\ BodyStep(t, "IsIdle") =>
                ret'[t].val = Bool(handle = Nil \/ (handle # Nil /\ ~streams))
          /\ (pc'[t] # pc[t] /\ (op[t] \in Predicates \/ op'[t] \in Predicates))
                => UNCHANGED <<devVars, held, crashed>>]_vars

C14_Witness ==
    \E t, u \in Threads :
        /\ handle # Nil /\ streams
        /\ Returned(t, "IsIdle") /\ ret[t].val = "false"
        /\ Returned(u, "IsClosed") /\ ret[u].val = "false"
Writers == {"Open", "Close"}

\* C15: Only Open and Close change the handle.  The handle field and the native
\* handles in existence change in no step but the body of an Open or a Close; the
\* body of every other method leaves them as they are, whatever its native call
\* returned.
C15_OnlyWritersChangeHandle ==
    [][/\ (handle' # handle \/ heap' # heap)
            => \E t \in Threads : BodyStep(t, "Open") \/ BodyStep(t, "Close")
       /\ \A t \in Threads :
            (op[t] \notin Writers /\ pc[t] \in {"body", "use", "loop"} /\ pc'[t] # pc[t])
                => (handle' = handle /\ heap' = heap)]_vars

C15_Witness ==
    \E t, u \in Threads :
        /\ handle # Nil /\ Live(handle)
        /\ Returned(t, "GetStream") /\ ret[t].err = "IOError"
        /\ Returned(u, "SetBrightness") /\ calls[u][1].r \in CtrlFailures
        /\ ret[u].err # NoError

\* C16: Lock release and progress.  A thread that is in no method holds dev.mu in
\* neither mode, so the lock is free whenever no method is in progress; and with
\* fair scheduling every method that was called returns, unless the process died
\* inside a native call: at any time, each thread will again be in no method.
C16_LockReleaseAndProgress ==
    /\ [](\A t \in Threads : pc[t] = "idle" => (t \notin readers /\ wmutex # t))
    /\ []((\A t \in Threads : pc[t] = "idle") => (wmutex = 0 /\ readers = {}))
    /\ \A t \in Threads : []<>(pc[t] = "idle" \/ crashed)

\* A Close waits for a reader that is leaving on its error path.
C16_Witness ==
    \E t, u \in Threads :
        /\ ~crashed
        /\ op[t] = "Close" /\ pc[t] = "drain"
        /\ Returned(u, "GetStream") /\ ret[u].err \notin {NoError, ErrDeviceClosed}
        /\ u \in readers

\* C17: The lifecycle cycles.  Whatever Opens and Closes came before, the body of
\* an Open that finds dev.handle nil makes one native open attempt; when the
\* attempt succeeds Open returns nil and dev.handle is a live handle, a new
\* instance, so the Device is open again.
C17_LifecycleCycles ==
    [][\A t \in Threads :
          (/\ op[t] = "Open" /\ pc[t] = "body" /\ handle = Nil
           /\ (pc'[t] # pc[t] \/ crashed' # crashed))
          => /\ Len(calls'[t]) = 1
             /\ calls'[t][1].fn = "uvc_open"
             /\ (pc'[t] = "ret" /\ calls'[t][1].r = UVC_SUCCESS)
                   => /\ ret'[t].err = NoError
                      /\ handle' \in Addrs
                      /\ heap'[handle'] = nOpens + 1
                      /\ nOpens' = nOpens + 1
                      /\ ~streams']_vars

\* The Device is open for the second time, its first handle closed once.
C17_Witness ==
    \E t \in Threads :
        /\ Returned(t, "Open") /\ ret[t].err = NoError /\ Len(calls[t]) = 1
        /\ nOpens = 2 /\ closes[1] = 1
        /\ handle # Nil /\ heap[handle] = 2

\* C18: Descriptor guard.  When Descriptor has computed its result on a Device
\* without a native device reference, the result is (nil, ErrDeviceNotFound) and
\* no native call was made.  With the reference, open or closed, it made exactly
\* one uvc_get_device_descriptor call and the result is determined by the status
\* of that call alone: the descriptor on success, (nil, translated error) on a
\* failure.
C18_DescriptorGuard ==
    \A t \in Threads :
        Returned(t, "Descriptor") =>
            IF ~devRef
            THEN /\ ret[t] = [val |-> "nil", err |-> ErrDeviceNotFound]
                 /\ calls[t] = <<>>
            ELSE /\ Len(calls[t]) = 1
                 /\ calls[t][1].fn = "uvc_get_device_descriptor"
                 /\ calls[t][1].live
                 /\ IF calls[t][1].r = UVC_SUCCESS
                    THEN ret[t] = [val |-> "DeviceDescriptor", err |-> NoError]
                    ELSE /\ ret[t] = [val |-> "nil", err |-> newError(calls[t][1].r)]
                         /\ ret[t].err # NoError

\* On a Device that was opened and closed again, one Descriptor has returned the
\* descriptor and another the error of a failed native call.
C18_Witness ==
    \E t, u \in Threads :
        /\ devRef /\ handle = Nil /\ closes[1] = 1
        /\ Returned(t, "Descriptor") /\ ret[t] = [val |-> "DeviceDescriptor", err |-> NoError]
        /\ Returned(u, "Descriptor") /\ ret[u] = [val |-> "nil", err |-> "IOError"]

Guarded == Setters \cup {"GetStream", "ControlInterface", "StreamInterfaces"}

\* The method of thread t has passed its nil check and has not yet returned from
\* its last use of the handle.
PastGuard(t) == op[t] \in Guarded /\ pc[t] \in {"use", "loop"}

\* C19: No check-then-use gap.  From the nil check of a setter, GetStream,
\* ControlInterface or StreamInterfaces to its use of the handle, the method
\* holds the read lock, dev.handle is present and live, and no step changes
\* dev.handle or closes or opens a native handle; every native call or read the
\* method makes is on that live handle, under the lock.
C19_NoCheckThenUseGap ==
    /\ [](\A t \in Threads :
            PastGuard(t) => (t \in readers /\ handle # Nil /\ Live(handle)))
    /\ [][\A t \in Threads :
            PastGuard(t) =>
                /\ handle' = handle
                /\ heap' = heap
                /\ \A i \in 1..Len(calls'[t]) :
                     /\ calls'[t][i].arg = handle
                     /\ calls'[t][i].live
                     /\ calls'[t][i].locked]_vars

\* A setter is between its check and its native call while a Close waits for
\* the readers to leave.
C19_Witness ==
    \E t, u \in Threads :
        /\ op[t] \in Setters /\ pc[t] = "use" /\ t \in readers
        /\ op[u] = "Close" /\ pc[u] = "drain"
        /\ Live(handle)

\* C20: Handle balance.  At every moment at most one native handle is alive and
\* it is the one dev.handle holds, so no Open has overwritten a present handle
\* and left it behind; dev.handle never holds a handle that was torn down, so no
\* Close passes one to uvc_close again; and no handle instance was passed to
\* uvc_close more than once.
C20_HandleBalance ==
    /\ Cardinality({a \in Addrs : heap[a] # 0}) <= 1
    /\ \A a \in Addrs : heap[a] # 0 => handle = a
    /\ handle # Nil => Live(handle)
    /\ \A i \in 1..MaxOpens : closes[i] <= 1
    /\ \A i \in 1..MaxOpens : (closes[i] = 1 \/ i > nOpens) => \A a \in Addrs : heap[a] # i

\* Two handles were opened and each torn down once; the second Close is about to
\* return while another thread's Open waits for the lock.
C20_Witness ==
    \E t, u \in Threads :
        /\ nOpens = 2 /\ closes[1] = 1 /\ closes[2] = 1
        /\ Returned(t, "Close") /\ calls[t][1].arg # Nil
        /\ op[u] = "Open" /\ pc[u] = "lock"

====
